---- MODULE Spec2Model ----
(***************************************************************************)
(* Model of kern/proc/proc.c: the process registry (allprocs), the pid     *)
(* allocator (base_pid / gen_pid), proc_create / proc_destroy /            *)
(* proc_bootstrap, and thread binding (proc_addthread / proc_remthread),   *)
(* with the exit/wait protocol that uses p_exit_lk, p_wait_lk, p_wait_cv.  *)
(*                                                                         *)
(* Pointers are small integers; NULL is 0.  A struct proc lives in a slot  *)
(* of the kernel heap, procs[h]; kfree makes the slot available again.     *)
(***************************************************************************)
EXTENDS Integers, Sequences, FiniteSets, TLC

\* ------------------------------------------------------------- bounds
MaxProcs == 3       \* heap slots that can hold a struct proc
MaxPid == 4         \* gen_pid is not called once base_pid reaches this
NThreads == 2       \* thread objects
NCpus == 2          \* processors running proc_create at the same time
NWaiters == 2       \* threads calling wait_for_exit
MaxRefs == 3        \* references to the working directory held at the start

\* C `unsigned` arithmetic is modular.  The real modulus is 2^32, which is
\* beyond TLC's integers; 2^30 wraps the same way for every array shorter
\* than 2^29 entries (0 - 1 is the largest value, and half of it is far
\* outside any array).
UINT_MOD == 1073741824

NULL == 0
OBJ == 1            \* a successfully allocated lock / cv / string

PROC == 1..MaxProcs
THREAD == 1..NThreads
CPU == 1..NCpus
WAITER == 1..NWaiters
VNODE == 1          \* the vnode of the working directory

VARIABLES
    kproc,      \* struct proc *kproc
    allprocs,   \* struct array *allprocs: [null, v]; v holds proc pointers
    base_pid,   \* pid_t base_pid
    procs,      \* the heap: slot -> struct proc
    t_proc,     \* thread -> t->t_proc
    panicked,   \* the kernel has stopped (panic, failed KASSERT, fault)
    issued,     \* history: the values gen_pid has returned, in order
    alloc_failed, \* history: some allocation has failed so far
    last,       \* history: the last call and what it returned
    \* calls of proc_addthread / proc_remthread in progress, one per thread
    tpc,        \* thread -> where the call acting on it stands
    treg,       \* thread -> the call's locals (proc, result)
    p_lock,     \* proc -> holder of proc->p_lock (a thread's call), or NULL
    \* calls of proc_create in progress, one per processor
    cpc,        \* cpu -> where its proc_create stands
    creg,       \* cpu -> its locals (proc, the loaded base_pid, the array index)
    \* the exit/wait protocol on one descriptor
    xpc,        \* exiter and waiters -> where each stands
    xreg,       \* exiter and waiters -> the code passed in / returned
    exit_lk_holder,   \* holder of p_exit_lk, or NULL
    wait_lk_holder,   \* holder of p_wait_lk, or NULL
    wait_cv_sleepers, \* the threads asleep on p_wait_cv
    \* calls of proc_create_runprogram, proc_destroy, curproc_getas and
    \* curproc_setas in progress, one per calling thread
    UW,         \* the build: TRUE when UW is defined
    rpc,        \* calling thread -> where its call stands
    rreg,       \* calling thread -> its call's arguments and locals
    vn_refcount,      \* the reference count of VNODE
    as_state,         \* address space -> "live" or "destroyed"
    as_active,        \* calling thread -> the address space its processor has active
    proc_count,       \* static unsigned int proc_count
    proc_count_mutex, \* the count of the semaphore proc_count_mutex
    no_proc_sem       \* the count of no_proc_sem

kvars == <<kproc, allprocs, base_pid, procs, t_proc, panicked, issued, alloc_failed, last>>
bvars == <<tpc, treg, p_lock>>
cvars == <<cpc, creg>>
xvars == <<xpc, xreg, exit_lk_holder, wait_lk_holder, wait_cv_sleepers>>

rvars == <<UW, rpc, rreg, vn_refcount, as_state, as_active, proc_count, proc_count_mutex,
           no_proc_sem>>

vars == <<kvars, bvars, cvars, xvars, rvars>>

\* ------------------------------------------------------- struct proc
NoProc ==
    [used |-> FALSE, p_id |-> 0, p_name |-> NULL, p_threads |-> <<>>,
     p_exit_lk |-> NULL, p_wait_lk |-> NULL, p_wait_cv |-> NULL,
     p_did_exit |-> FALSE, p_exitcode |-> 0, p_children |-> "none",
     p_addrspace |-> NULL, p_cwd |-> NULL]

NullArray == [null |-> TRUE, v |-> <<>>]

\* array_num(a)
array_num(a) == Len(a.v)

\* the p_id of every entry of an array of procs, in array order
Pids(a) == [i \in 1..Len(a.v) |-> procs[a.v[i]].p_id]

\* ------------------------------------------------ registry: lookup
\* The loop of procarray_proc_index_by_pid on the p_ids `ids`, with
\* unsigned low/high/probe.  array_get(procs, probe) with probe >= num is
\* an access outside the array: the search stops there with oob.
RECURSIVE bsearch(_, _, _, _)
bsearch(ids, pid, low, high) ==
    IF high >= low
    THEN LET probe == ((high + low) % UINT_MOD) \div 2 IN
         IF probe >= Len(ids)
         THEN [oob |-> TRUE, index |-> probe]
         ELSE IF pid = ids[probe + 1]
         THEN [oob |-> FALSE, index |-> probe]
         ELSE IF pid < ids[probe + 1]
         THEN bsearch(ids, pid, low, (probe - 1) % UINT_MOD)
         ELSE bsearch(ids, pid, (probe + 1) % UINT_MOD, high)
    ELSE [oob |-> FALSE, index |-> (0 - 1) % UINT_MOD]

\* unsigned procarray_proc_index_by_pid(procs, pid)
procarray_proc_index_by_pid(ids, pid) ==
    bsearch(ids, pid, 0, (Len(ids) - 1) % UINT_MOD)

\* procarray_proc_by_pid: array_get at the index the search returned.
\* kind is "found" (proc is the entry), or "oob" (an index outside
\* [0, num-1] was handed to array_get, in the search or after it).
procarray_proc_by_pid(a, pid) ==
    LET r == procarray_proc_index_by_pid(Pids(a), pid) IN
    IF r.oob \/ r.index >= array_num(a)
    THEN [kind |-> "oob", proc |-> NULL, index |-> r.index]
    ELSE [kind |-> "found", proc |-> a.v[r.index + 1], index |-> r.index]

\* ---------------------------------------------- registry: add, remove
procarray_add_proc_front(v, p) == <<p>> \o v

\* array_add(procs, p, NULL): p goes to the end
procarray_add_proc(v, p) == Append(v, p)

\* array_remove(procs, index): the later entries move down by one
array_remove(v, index) ==
    [i \in 1..(Len(v) - 1) |-> IF i <= index THEN v[i] ELSE v[i + 1]]

\* procarray_allprocs_add_proc(p), with `fail` the allocation that fails.
\* "registry_create": array_create returns NULL and array_init(NULL)
\* dereferences it: ub = "fault" stops the kernel, ub = "garbage" lets the
\* stores through and allprocs stays NULL.  "registry": array_add returns
\* ENOMEM, which procarray_add_proc drops; a freshly created array is then
\* left allocated with no entry.
procarray_allprocs_add_proc(a, p, fail, ub) ==
    IF a.null
    THEN IF fail = "registry_create"
         THEN [a |-> a, fault |-> (ub = "fault")]
         ELSE IF fail = "registry"
         THEN [a |-> [null |-> FALSE, v |-> <<>>], fault |-> FALSE]
         ELSE [a |-> [null |-> FALSE, v |-> procarray_add_proc(<<>>, p)], fault |-> FALSE]
    ELSE IF fail = "registry"
         THEN [a |-> a, fault |-> FALSE]
         ELSE [a |-> [null |-> FALSE, v |-> procarray_add_proc(a.v, p)], fault |-> FALSE]

allprocs_is_empty_or_one(v) == Len(v) <= 1

\* the test of procarray_allprocs_remove_proc that deinitialises the array
allprocs_is_empty(v) == Len(v) = 0

\* procarray_allprocs_remove_proc(pid): [a, fault]; fault when the index
\* handed to array_remove is outside the array, or allprocs is NULL
procarray_allprocs_remove_proc(a, pid) ==
    IF a.null THEN [a |-> a, fault |-> TRUE]
    ELSE LET r == procarray_proc_index_by_pid(Pids(a), pid) IN
         IF r.oob \/ r.index >= array_num(a)
         THEN [a |-> a, fault |-> TRUE]
         ELSE LET v == array_remove(a.v, r.index) IN
              [a |-> IF allprocs_is_empty(v) THEN NullArray ELSE [null |-> FALSE, v |-> v],
               fault |-> FALSE]

\* ------------------------------------------------------ pid allocator
gen_pid_wrap(b) == (b % 3) + 1

\* gen_pid(): return ++base_pid
gen_pid(b) == b + 1

\* ------------------------------------------------------- proc_create
\* The allocations of proc_create, in order, and the one that fails.
FailPoints ==
    {"none", "proc", "name", "exit_lk", "wait_lk", "wait_cv", "children",
     "registry_create", "registry"}

UB == {"fault", "garbage"}

\* proc_create(name) with kmalloc returning slot h, the allocation `fail`
\* failing, and `ub` the outcome of a NULL dereference.  The result holds
\* the return value, the globals and the heap after the call, whether the
\* kernel faulted, and the allocations of this call that are still
\* allocated but owned by nothing.
proc_create(h, fail, ub) ==
    LET out(ret, pr, b, a, is, fault, un) ==
            [ret |-> ret, procs |-> pr, base_pid |-> b, allprocs |-> a,
             issued |-> is, fault |-> fault, unreleased |-> un]
    IN
    IF fail = "proc"
    THEN out(NULL, procs, base_pid, allprocs, issued, FALSE, {})
    ELSE IF fail = "name"
    THEN out(NULL, procs, base_pid, allprocs, issued, FALSE, {"proc"} \ {"proc"})
    ELSE
    LET pid == gen_pid(base_pid)
        is == Append(issued, pid)
        exit_lk == IF fail = "exit_lk" THEN NULL ELSE OBJ
        wait_lk == IF fail = "wait_lk" THEN NULL ELSE OBJ
        wait_cv == IF fail = "wait_cv" THEN NULL ELSE OBJ
        held1 == {"proc", "name"}
        held2 == held1 \cup {"exit_lk"} \cup (IF wait_lk = NULL THEN {} ELSE {"wait_lk"})
        held3 == held2 \cup (IF wait_cv = NULL THEN {} ELSE {"wait_cv"})
    IN
    IF exit_lk = NULL                       \* line 204
    THEN out(NULL, procs, pid, allprocs, is, FALSE, held1 \ {"name", "proc"})
    ELSE IF exit_lk = NULL                  \* line 210 tests p_exit_lk again
    THEN out(NULL, procs, pid, allprocs, is, FALSE, held2 \ {"exit_lk", "name", "proc"})
    ELSE IF exit_lk = NULL                  \* line 218 tests p_exit_lk again
    THEN out(NULL, procs, pid, allprocs, is, FALSE,
             held3 \ {"wait_lk", "exit_lk", "name", "proc"})
    ELSE IF fail = "children" /\ ub = "fault"   \* *array_create() reads through NULL
    THEN out(NULL, procs, pid, allprocs, is, TRUE, held3)
    ELSE
    LET p == [used |-> TRUE, p_id |-> pid, p_name |-> OBJ, p_threads |-> <<>>,
              p_exit_lk |-> exit_lk, p_wait_lk |-> wait_lk, p_wait_cv |-> wait_cv,
              p_did_exit |-> FALSE, p_exitcode |-> 0,
              p_children |-> IF fail = "children" THEN "garbage" ELSE "ok",
              p_addrspace |-> NULL, p_cwd |-> NULL]
        add == procarray_allprocs_add_proc(allprocs, h, fail, ub)
    IN out(h, [procs EXCEPT ![h] = p], pid, add.a, is, add.fault, {})

FreeSlots == {h \in PROC : ~procs[h].used}
LiveProcs == {h \in PROC : procs[h].used}

\* the slot kmalloc hands out: the first free one (slots are interchangeable,
\* so the choice loses no behaviour); NULL when the heap is full
KmallocChoices ==
    IF FreeSlots = {} THEN {NULL}
    ELSE {CHOOSE h \in FreeSlots : \A g \in FreeSlots : h <= g}

LastNone ==
    [op |-> "none", p |-> NULL, t |-> NULL, pid |-> 0, fail |-> "none", ret |-> 0,
     kind |-> "none", before |-> <<>>, unreleased |-> {}, pair |-> FALSE, refs |-> 0]

\* address spaces: one owned by each calling thread, one by each process
AS == 1..(NThreads + MaxProcs)

\* The arguments, locals and result of a thread's call: the call (op), the
\* descriptor created, destroyed or read from t->t_proc (proc), the thread
\* passed to proc_remthread (t), curproc as the call read it (cur), the
\* address space the thread passes in or got back (as), the value returned
\* (ret), the value loaded from proc_count (load), and for the properties:
\* the values p_addrspace took while a curproc_getas was in progress or the
\* threads in the array when proc_remthread scanned it (seen), and the
\* address space the descriptor owned when its destroy started (own).  All
\* but `as` end with the call.
NoCall ==
    [op |-> "none", proc |-> NULL, t |-> NULL, cur |-> NULL, as |-> NULL, ret |-> NULL,
     load |-> 0, seen |-> {}, own |-> NULL]

\* no call of the interleaved specifications is in progress
EXITER == 0
IdleCalls ==
    /\ tpc = [t \in THREAD |-> "idle"]
    /\ treg = [t \in THREAD |-> [proc |-> NULL, result |-> 0]]
    /\ p_lock = [h \in PROC |-> NULL]
    /\ cpc = [c \in CPU |-> "idle"]
    /\ creg = [c \in CPU |-> [proc |-> NULL, pid |-> 0, index |-> 0]]
    /\ xpc = [x \in {EXITER} \cup WAITER |-> "idle"]
    /\ xreg = [x \in {EXITER} \cup WAITER |-> [code |-> 0, slept |-> FALSE]]
    /\ exit_lk_holder = NULL
    /\ wait_lk_holder = NULL
    /\ wait_cv_sleepers = {}
    /\ UW = FALSE
    /\ rpc = [t \in THREAD |-> "idle"]
    /\ rreg = [t \in THREAD |-> NoCall]
    /\ vn_refcount = 0
    /\ as_state = [a \in AS |-> "live"]
    /\ as_active = [t \in THREAD |-> NULL]
    /\ proc_count = 0
    /\ proc_count_mutex = 1
    /\ no_proc_sem = 0

\* ---------------------------------------------------------- actions
Init ==
    /\ kproc = NULL
    /\ allprocs = NullArray
    /\ base_pid = 0
    /\ procs = [h \in PROC |-> NoProc]
    /\ t_proc = [t \in THREAD |-> NULL]
    /\ panicked = FALSE
    /\ issued = <<>>
    /\ alloc_failed = FALSE
    /\ last = LastNone
    /\ IdleCalls

\* proc_bootstrap(): kproc = proc_create("[kernel]"); panic when it is NULL.
\* A fault inside proc_create stops the kernel before kproc is assigned.
Bootstrap ==
    /\ ~panicked
    /\ kproc = NULL
    /\ base_pid = 0
    /\ \E h \in KmallocChoices, fail \in FailPoints, ub \in UB :
         /\ (h = NULL) => (fail = "proc")
         /\ (fail = "registry_create") => allprocs.null
         /\ LET r == proc_create(h, fail, ub) IN
            /\ kproc' = (IF r.fault THEN kproc ELSE r.ret)
            /\ procs' = r.procs
            /\ base_pid' = r.base_pid
            /\ allprocs' = r.allprocs
            /\ issued' = r.issued
            /\ panicked' = (r.fault \/ r.ret = NULL)
            /\ alloc_failed' = (fail # "none")
            /\ last' = [LastNone EXCEPT !.op = "bootstrap", !.p = r.ret, !.fail = fail,
                                        !.ret = r.ret, !.pid = r.base_pid,
                                        !.unreleased = r.unreleased,
                                        !.kind = IF r.fault THEN "fault" ELSE "ret"]
    /\ UNCHANGED t_proc
    /\ UNCHANGED <<bvars, cvars, xvars, rvars>>

\* a call of proc_create after boot (through proc_create_runprogram)
Create ==
    /\ ~panicked
    /\ kproc # NULL
    /\ base_pid < MaxPid
    /\ \E h \in KmallocChoices, fail \in FailPoints, ub \in UB :
         /\ (h = NULL) => (fail = "proc")
         /\ (fail = "registry_create") => allprocs.null
         /\ LET r == proc_create(h, fail, ub) IN
            /\ procs' = r.procs
            /\ base_pid' = r.base_pid
            /\ allprocs' = r.allprocs
            /\ issued' = r.issued
            /\ panicked' = r.fault
            /\ alloc_failed' = (alloc_failed \/ fail # "none")
            /\ last' = [LastNone EXCEPT !.op = "create", !.p = r.ret, !.fail = fail,
                                        !.ret = r.ret, !.pid = r.base_pid,
                                        !.unreleased = r.unreleased,
                                        !.pair = (last.op = "destroy" /\ last.kind = "ret"
                                                    /\ LiveProcs = {kproc}),
                                        !.before = allprocs.v,
                                        !.kind = IF r.fault THEN "fault" ELSE "ret"]
    /\ UNCHANGED <<kproc, t_proc>>
    /\ UNCHANGED <<bvars, cvars, xvars, rvars>>

\* proc_destroy(proc) on a live descriptor.  The kernel stops when proc is
\* kproc (KASSERT), when the pid is not found in allprocs (array_remove of
\* an index outside the array), when threads are still attached
\* (threadarray_cleanup of a non-empty array), and when a lock or the cv is
\* NULL (lock_destroy / cv_destroy of NULL).
Destroy ==
    /\ ~panicked
    /\ \E p \in LiveProcs :
         LET rm == procarray_allprocs_remove_proc(allprocs, procs[p].p_id)
             lst == [LastNone EXCEPT !.op = "destroy", !.p = p, !.pid = procs[p].p_id,
                                     !.before = allprocs.v]
         IN
         IF p = kproc
         THEN /\ panicked' = TRUE
              /\ last' = [lst EXCEPT !.kind = "kassert"]
              /\ UNCHANGED <<allprocs, procs>>
         ELSE IF rm.fault
         THEN /\ panicked' = TRUE
              /\ last' = [lst EXCEPT !.kind = "fault"]
              /\ UNCHANGED <<allprocs, procs>>
         ELSE IF \/ procs[p].p_threads # <<>>
                 \/ procs[p].p_wait_lk = NULL
                 \/ procs[p].p_wait_cv = NULL
         THEN /\ panicked' = TRUE
              /\ allprocs' = rm.a
              /\ last' = [lst EXCEPT !.kind = "fault"]
              /\ UNCHANGED procs
         ELSE /\ allprocs' = rm.a
              /\ procs' = [procs EXCEPT ![p] = NoProc]
              /\ last' = [lst EXCEPT !.kind = "ret"]
              /\ UNCHANGED panicked
    /\ UNCHANGED <<kproc, base_pid, t_proc, issued, alloc_failed>>
    /\ UNCHANGED <<bvars, cvars, xvars, rvars>>

\* the pids a caller asks for: 0, the issued ones, and one beyond
LookupPids == 0..(MaxPid + 1)

\* procarray_allprocs_proc_by_pid(pid).  With allprocs NULL, array_num
\* dereferences NULL; an index outside the array stops the kernel in
\* array_get.
Lookup ==
    /\ ~panicked
    /\ \E pid \in LookupPids :
         LET r == procarray_proc_by_pid(allprocs, pid) IN
         IF allprocs.null
         THEN /\ panicked' = TRUE
              /\ last' = [LastNone EXCEPT !.op = "lookup", !.pid = pid, !.kind = "fault"]
         ELSE /\ panicked' = (r.kind = "oob")
              /\ last' = [LastNone EXCEPT !.op = "lookup", !.pid = pid, !.kind = r.kind,
                                          !.ret = r.proc]
    /\ UNCHANGED <<kproc, allprocs, base_pid, procs, t_proc, issued, alloc_failed>>
    /\ UNCHANGED <<bvars, cvars, xvars, rvars>>

\* ------------------------------------------------------ thread binding
ENOMEM == 3

\* threadarray_add(&proc->p_threads, t, NULL)
threadarray_add(arr, t) == Append(arr, t)

\* the index (from 0) at which the scan of proc_remthread finds t, or
\* num when it is not in the array
RECURSIVE scan_threads(_, _, _)
scan_threads(arr, t, i) ==
    IF i >= Len(arr) THEN Len(arr)
    ELSE IF arr[i + 1] = t THEN i
    ELSE scan_threads(arr, t, i + 1)

threadarray_remove_head(arr, i) == Tail(arr)

\* threadarray_remove(&proc->p_threads, i)
threadarray_remove(arr, i) ==
    [k \in 1..(Len(arr) - 1) |-> IF k <= i THEN arr[k] ELSE arr[k + 1]]

addthread_t_proc_always(result, old, proc) == proc

\* what proc_addthread stores in t->t_proc, given threadarray_add's result
addthread_t_proc(result, old, proc) == IF result # 0 THEN old ELSE proc

Members(h) == {procs[h].p_threads[i] : i \in 1..Len(procs[h].p_threads)}

\* proc_addthread(proc, t): KASSERT(t->t_proc == NULL); the append may
\* fail with ENOMEM
Attach ==
    /\ ~panicked
    /\ \E d \in LiveProcs, t \in THREAD, result \in {0, ENOMEM} :
         LET lst == [LastNone EXCEPT !.op = "attach", !.p = d, !.t = t, !.ret = result,
                                     !.before = procs[d].p_threads]
         IN
         IF t_proc[t] # NULL
         THEN /\ panicked' = TRUE
              /\ last' = [lst EXCEPT !.kind = "kassert"]
              /\ UNCHANGED <<procs, t_proc>>
         ELSE /\ procs' = [procs EXCEPT ![d].p_threads =
                              IF result = 0 THEN threadarray_add(@, t) ELSE @]
              /\ t_proc' = [t_proc EXCEPT ![t] = addthread_t_proc(result, @, d)]
              /\ last' = [lst EXCEPT !.kind = "ret"]
              /\ UNCHANGED panicked
    /\ UNCHANGED <<kproc, allprocs, base_pid, issued, alloc_failed>>
    /\ UNCHANGED <<bvars, cvars, xvars, rvars>>

\* proc_remthread(t): KASSERT(t->t_proc != NULL); panic when the scan does
\* not find t
Detach ==
    /\ ~panicked
    /\ \E t \in THREAD :
         LET d == t_proc[t]
             lst == [LastNone EXCEPT !.op = "detach", !.p = d, !.t = t,
                        !.pair = (last.op = "attach" /\ last.t = t /\ last.ret = 0
                                    /\ last.kind = "ret"),
                        !.before = last.before]
         IN
         IF d = NULL
         THEN /\ panicked' = TRUE
              /\ last' = [lst EXCEPT !.kind = "kassert"]
              /\ UNCHANGED <<procs, t_proc>>
         ELSE LET i == scan_threads(procs[d].p_threads, t, 0) IN
              IF i < Len(procs[d].p_threads)
              THEN /\ procs' = [procs EXCEPT ![d].p_threads = threadarray_remove(@, i)]
                   /\ t_proc' = [t_proc EXCEPT ![t] = NULL]
                   /\ last' = [lst EXCEPT !.kind = "ret"]
                   /\ UNCHANGED panicked
              ELSE /\ panicked' = TRUE
                   /\ last' = [lst EXCEPT !.kind = "panic"]
                   /\ UNCHANGED <<procs, t_proc>>
    /\ UNCHANGED <<kproc, allprocs, base_pid, issued, alloc_failed>>
    /\ UNCHANGED <<bvars, cvars, xvars, rvars>>

Next == Bootstrap \/ Create \/ Destroy \/ Lookup

Spec == Init /\ [][Next]_vars

\* ------------------------------------- a booted kernel with processes
\* a descriptor as proc_create leaves it when nothing fails
BootedProc(pid) ==
    [NoProc EXCEPT !.used = TRUE, !.p_id = pid, !.p_name = OBJ, !.p_exit_lk = OBJ,
                   !.p_wait_lk = OBJ, !.p_wait_cv = OBJ, !.p_children = "ok"]

\* The state after proc_bootstrap and MaxProcs - 1 creates: the kernel
\* process in slot 1 and a user process in every other slot.
InitBooted ==
    /\ kproc = 1
    /\ allprocs = [null |-> FALSE, v |-> [i \in 1..MaxProcs |-> i]]
    /\ base_pid = MaxProcs
    /\ procs = [h \in PROC |-> BootedProc(h)]
    /\ t_proc = [t \in THREAD |-> NULL]
    /\ panicked = FALSE
    /\ issued = [i \in 1..MaxProcs |-> i]
    /\ alloc_failed = FALSE
    /\ last = LastNone
    /\ IdleCalls

\* calls of proc_addthread, proc_remthread and proc_destroy, one at a time
NextThreads == Attach \/ Detach \/ Destroy

SpecThreads == InitBooted /\ [][NextThreads]_vars

\* =================================================================
\* Properties of the registry, the allocator and proc_create (Spec)
\* =================================================================
Range(v) == {v[i] : i \in 1..Len(v)}
Registered(pid) == \E i \in 1..Len(allprocs.v) : procs[allprocs.v[i]].p_id = pid

\* C1: lookup(id) returns the descriptor whose identifier is id iff one is
\* registered, and otherwise returns not-found, without ever probing an
\* index outside [0, n-1] (also for id 0 and for the uninitialized registry).
\* Stated for the lookups made after a bootstrap in which nothing failed.
C1_LookupFindsOrNotFound ==
    (last.op = "lookup" /\ kproc # NULL /\ ~alloc_failed) =>
        IF Registered(last.pid)
        THEN last.kind = "found" /\ procs[last.ret].p_id = last.pid
        ELSE last.kind = "notfound"

\* C2: after bootstrap and after every create and destroy, the registry is
\* sorted strictly ascending by identifier.
C2_RegistrySorted ==
    \A i \in 1..(Len(allprocs.v) - 1) :
        procs[allprocs.v[i]].p_id < procs[allprocs.v[i + 1]].p_id

\* C2 witness: three entries after a destroy and a later create, so that the
\* newest descriptor sits in a lower heap slot than its neighbour.
C2_Witness ==
    /\ last.op = "create"
    /\ Len(allprocs.v) = 3
    /\ allprocs.v[3] < allprocs.v[2]

\* C3: every identifier issued is positive and greater than every
\* identifier issued before it (so none is issued twice), also after
\* destroys and across failed creates.
C3_PidsIncreasing ==
    \A i \in 1..Len(issued) :
        /\ issued[i] > 0
        /\ \A j \in 1..(i - 1) : issued[j] < issued[i]

\* C3 witness: a create gets identifier 4 while only one other descriptor is
\* alive: earlier identifiers went to destroyed descriptors or failed creates.
C3_Witness ==
    /\ last.op = "create"
    /\ last.ret # NULL
    /\ procs[last.ret].p_id = 4
    /\ Len(issued) = 4
    /\ Cardinality(LiveProcs) = 2

\* C5: when an allocation of create fails, create returns failure, the
\* descriptor is not registered and everything the call allocated is
\* released; no live or registered descriptor lacks its exit lock, wait lock
\* or wait condition.
C5_CreateFailureUnwinds ==
    /\ (last.op = "create" /\ last.fail # "none" /\ last.kind = "ret") =>
          /\ last.ret = NULL
          /\ last.unreleased = {}
          /\ allprocs.v = last.before
    /\ \A h \in LiveProcs \cup Range(allprocs.v) :
          /\ procs[h].p_exit_lk # NULL
          /\ procs[h].p_wait_lk # NULL
          /\ procs[h].p_wait_cv # NULL

C10_RegistryIsLiveSet ==
    (kproc # NULL /\ ~alloc_failed) =>
        /\ procs[kproc].p_id = 1
        /\ Range(allprocs.v) = LiveProcs
        /\ \A h \in LiveProcs :
              LET r == procarray_proc_by_pid(allprocs, procs[h].p_id) IN
              r.kind = "found" /\ r.proc = h
        /\ (last.op = "create" /\ Len(issued) = 2) => procs[last.ret].p_id = 2
        /\ (last.op = "destroy" /\ last.kind = "ret") =>
              /\ allprocs.v = SelectSeq(last.before, LAMBDA h : h # last.p)
              /\ procarray_proc_by_pid(allprocs, last.pid).kind = "notfound"

\* ------------------- proc_addthread / proc_remthread, statement by statement
\* One call at a time acts on a given thread (its own, or its creator's
\* before it runs); calls on different threads interleave.  p_lock is a
\* spinlock: a call waits until it is free.
BFrame ==
    UNCHANGED <<kproc, allprocs, base_pid, issued, alloc_failed, last, cvars, xvars, rvars>>

\* line 415: KASSERT(t->t_proc == NULL)
AddStart(t) ==
    /\ ~panicked /\ tpc[t] = "idle"
    /\ \E d \in LiveProcs :
         IF t_proc[t] # NULL
         THEN /\ panicked' = TRUE
              /\ UNCHANGED <<tpc, treg>>
         ELSE /\ tpc' = [tpc EXCEPT ![t] = "add_acquire"]
              /\ treg' = [treg EXCEPT ![t] = [proc |-> d, result |-> 0]]
              /\ UNCHANGED panicked
    /\ UNCHANGED <<procs, t_proc, p_lock>> /\ BFrame

\* line 417: spinlock_acquire(&proc->p_lock)
AddAcquire(t) ==
    /\ ~panicked /\ tpc[t] = "add_acquire"
    /\ p_lock[treg[t].proc] = NULL
    /\ p_lock' = [p_lock EXCEPT ![treg[t].proc] = t]
    /\ tpc' = [tpc EXCEPT ![t] = "add_add"]
    /\ UNCHANGED <<procs, t_proc, treg, panicked>> /\ BFrame

\* line 418: result = threadarray_add(&proc->p_threads, t, NULL)
AddAdd(t) ==
    /\ ~panicked /\ tpc[t] = "add_add"
    /\ \E result \in {0, ENOMEM} :
         /\ procs' = [procs EXCEPT ![treg[t].proc].p_threads =
                         IF result = 0 THEN threadarray_add(@, t) ELSE @]
         /\ treg' = [treg EXCEPT ![t].result = result]
    /\ tpc' = [tpc EXCEPT ![t] = "add_release"]
    /\ UNCHANGED <<t_proc, p_lock, panicked>> /\ BFrame

\* line 419: spinlock_release(&proc->p_lock)
AddRelease(t) ==
    /\ ~panicked /\ tpc[t] = "add_release"
    /\ p_lock' = [p_lock EXCEPT ![treg[t].proc] = NULL]
    /\ tpc' = [tpc EXCEPT ![t] = "add_finish"]
    /\ UNCHANGED <<procs, t_proc, treg, panicked>> /\ BFrame

\* lines 420-424: if (result) return result; t->t_proc = proc; return 0
AddFinish(t) ==
    /\ ~panicked /\ tpc[t] = "add_finish"
    /\ t_proc' = [t_proc EXCEPT ![t] = addthread_t_proc(treg[t].result, @, treg[t].proc)]
    /\ tpc' = [tpc EXCEPT ![t] = "idle"]
    /\ UNCHANGED <<procs, p_lock, treg, panicked>> /\ BFrame

\* lines 435-436: proc = t->t_proc; KASSERT(proc != NULL)
RemStart(t) ==
    /\ ~panicked /\ tpc[t] = "idle"
    /\ IF t_proc[t] = NULL
       THEN /\ panicked' = TRUE
            /\ UNCHANGED <<tpc, treg>>
       ELSE /\ tpc' = [tpc EXCEPT ![t] = "rem_acquire"]
            /\ treg' = [treg EXCEPT ![t] = [proc |-> t_proc[t], result |-> 0]]
            /\ UNCHANGED panicked
    /\ UNCHANGED <<procs, t_proc, p_lock>> /\ BFrame

\* line 438: spinlock_acquire(&proc->p_lock)
RemAcquire(t) ==
    /\ ~panicked /\ tpc[t] = "rem_acquire"
    /\ p_lock[treg[t].proc] = NULL
    /\ p_lock' = [p_lock EXCEPT ![treg[t].proc] = t]
    /\ tpc' = [tpc EXCEPT ![t] = "rem_scan"]
    /\ UNCHANGED <<procs, t_proc, treg, panicked>> /\ BFrame

\* lines 440-443: the scan, and threadarray_remove when t is found;
\* lines 449-451 when it is not: spinlock_release, panic("Thread has escaped")
RemScan(t) ==
    /\ ~panicked /\ tpc[t] = "rem_scan"
    /\ LET d == treg[t].proc
           i == scan_threads(procs[d].p_threads, t, 0)
       IN IF i < Len(procs[d].p_threads)
          THEN /\ procs' = [procs EXCEPT ![d].p_threads = threadarray_remove(@, i)]
               /\ tpc' = [tpc EXCEPT ![t] = "rem_release"]
               /\ UNCHANGED <<p_lock, panicked>>
          ELSE /\ p_lock' = [p_lock EXCEPT ![d] = NULL]
               /\ panicked' = TRUE
               /\ UNCHANGED <<procs, tpc>>
    /\ UNCHANGED <<t_proc, treg>> /\ BFrame

\* line 444: spinlock_release(&proc->p_lock)
RemRelease(t) ==
    /\ ~panicked /\ tpc[t] = "rem_release"
    /\ p_lock' = [p_lock EXCEPT ![treg[t].proc] = NULL]
    /\ tpc' = [tpc EXCEPT ![t] = "rem_finish"]
    /\ UNCHANGED <<procs, t_proc, treg, panicked>> /\ BFrame

\* lines 445-446: t->t_proc = NULL; return
RemFinish(t) ==
    /\ ~panicked /\ tpc[t] = "rem_finish"
    /\ t_proc' = [t_proc EXCEPT ![t] = NULL]
    /\ tpc' = [tpc EXCEPT ![t] = "idle"]
    /\ UNCHANGED <<procs, p_lock, treg, panicked>> /\ BFrame

NextBind ==
    \E t \in THREAD :
        \/ AddStart(t) \/ AddAcquire(t) \/ AddAdd(t) \/ AddRelease(t) \/ AddFinish(t)
        \/ RemStart(t) \/ RemAcquire(t) \/ RemScan(t) \/ RemRelease(t) \/ RemFinish(t)

SpecBind == InitBooted /\ [][NextBind]_vars

\* ------------------------ proc_create on several processors at once
\* No lock is taken in proc_create, gen_pid or procarray_allprocs_add_proc:
\* ++base_pid is a load and a store, and array_add reads the array's size
\* and then stores at that index.  Allocations succeed here.
CFrame == UNCHANGED <<kproc, t_proc, panicked, alloc_failed, last, bvars, xvars, rvars>>

\* the state after proc_bootstrap: the kernel process alone
InitKernelOnly ==
    /\ kproc = 1
    /\ allprocs = [null |-> FALSE, v |-> <<1>>]
    /\ base_pid = 1
    /\ procs = [h \in PROC |-> IF h = 1 THEN BootedProc(1) ELSE NoProc]
    /\ t_proc = [t \in THREAD |-> NULL]
    /\ panicked = FALSE
    /\ issued = <<1>>
    /\ alloc_failed = FALSE
    /\ last = LastNone
    /\ IdleCalls

\* lines 173-194: kmalloc, kstrdup, the fields before p_id
CStart(c) ==
    /\ cpc[c] = "idle"
    /\ base_pid < MaxPid
    /\ \E h \in KmallocChoices :
         /\ h # NULL
         /\ procs' = [procs EXCEPT ![h] = [NoProc EXCEPT !.used = TRUE, !.p_name = OBJ]]
         /\ creg' = [creg EXCEPT ![c] = [proc |-> h, pid |-> 0, index |-> 0]]
    /\ cpc' = [cpc EXCEPT ![c] = "gen_load"]
    /\ UNCHANGED <<allprocs, base_pid, issued>> /\ CFrame

\* line 163, ++base_pid: the load
CGenLoad(c) ==
    /\ cpc[c] = "gen_load"
    /\ creg' = [creg EXCEPT ![c].pid = base_pid]
    /\ cpc' = [cpc EXCEPT ![c] = "gen_store"]
    /\ UNCHANGED <<allprocs, base_pid, procs, issued>> /\ CFrame

\* line 163, ++base_pid: the store and the value returned; lines 199-227
CGenStore(c) ==
    /\ cpc[c] = "gen_store"
    /\ LET pid == gen_pid(creg[c].pid) IN
       /\ base_pid' = pid
       /\ issued' = Append(issued, pid)
       /\ procs' = [procs EXCEPT ![creg[c].proc] = BootedProc(pid)]
    /\ cpc' = [cpc EXCEPT ![c] = "add_index"]
    /\ UNCHANGED <<allprocs, creg>> /\ CFrame

\* line 121, array_add: index = array_num(procs)
CAddIndex(c) ==
    /\ cpc[c] = "add_index"
    /\ creg' = [creg EXCEPT ![c].index = array_num(allprocs)]
    /\ cpc' = [cpc EXCEPT ![c] = "add_store"]
    /\ UNCHANGED <<allprocs, base_pid, procs, issued>> /\ CFrame

\* line 121, array_add: the size becomes index + 1 and the entry at index
\* is the new proc; line 232: return proc
CAddStore(c) ==
    /\ cpc[c] = "add_store"
    /\ allprocs' = [allprocs EXCEPT
                      !.v = procarray_add_proc(SubSeq(@, 1, creg[c].index), creg[c].proc)]
    /\ cpc' = [cpc EXCEPT ![c] = "idle"]
    /\ UNCHANGED <<base_pid, procs, issued, creg>> /\ CFrame

NextConc ==
    \E c \in CPU :
        CStart(c) \/ CGenLoad(c) \/ CGenStore(c) \/ CAddIndex(c) \/ CAddStore(c)

SpecConc == InitKernelOnly /\ [][NextConc]_vars

\* -------------------------------------------------- exit/wait protocol
\* record_exit and wait_for_exit on the descriptor in slot XPROC, step by
\* step.  Locks are blocking locks: a thread waits until the lock is free.
XPROC == 2
ExitCodes == {1, 2}
XFrame == UNCHANGED <<kproc, allprocs, base_pid, t_proc, panicked, issued, alloc_failed,
                      last, bvars, cvars, rvars>>

\* the sleepers that cv_broadcast wakes
cv_signal_wakes(sleepers) ==
    IF sleepers = {} THEN {} ELSE {CHOOSE x \in sleepers : TRUE}

cv_broadcast_wakes(sleepers) == sleepers

\* the wait loop's test: suspend while this holds
wait_must_sleep(did_exit) == ~did_exit

\* the descriptor record_exit and wait_for_exit are called on is one
\* proc_create has built with its locks and its condition variable
XProcReady ==
    /\ procs[XPROC].used
    /\ procs[XPROC].p_exit_lk # NULL
    /\ procs[XPROC].p_wait_lk # NULL
    /\ procs[XPROC].p_wait_cv # NULL

record_exit_never_aborts(did_exit) == FALSE

\* the guard of record_exit: a repeat on an exited descriptor is fatal
record_exit_must_abort(did_exit) == did_exit

\* record_exit(d, code): lock_acquire(exit_lock)
XAcquireExit ==
    /\ ~panicked /\ XProcReady
    /\ xpc[EXITER] = "idle" /\ exit_lk_holder = NULL
    /\ \E code \in ExitCodes : xreg' = [xreg EXCEPT ![EXITER].code = code]
    /\ exit_lk_holder' = EXITER
    /\ xpc' = [xpc EXCEPT ![EXITER] = "check"]
    /\ UNCHANGED <<procs, wait_lk_holder, wait_cv_sleepers>> /\ XFrame

\* the check of has_exited under exit_lock: the kernel stops on a repeat
XCheckExited ==
    /\ ~panicked
    /\ xpc[EXITER] = "check"
    /\ IF record_exit_must_abort(procs[XPROC].p_did_exit)
       THEN /\ panicked' = TRUE
            /\ UNCHANGED xpc
       ELSE /\ xpc' = [xpc EXCEPT ![EXITER] = "set_code"]
            /\ UNCHANGED panicked
    /\ UNCHANGED <<procs, xreg, exit_lk_holder, wait_lk_holder, wait_cv_sleepers>>
    /\ UNCHANGED <<kproc, allprocs, base_pid, t_proc, issued, alloc_failed, last, bvars, cvars,
                   rvars>>

\* exit_code = code
XSetCode ==
    /\ xpc[EXITER] = "set_code"
    /\ procs' = [procs EXCEPT ![XPROC].p_exitcode = xreg[EXITER].code]
    /\ xpc' = [xpc EXCEPT ![EXITER] = "set_exited"]
    /\ UNCHANGED <<xreg, exit_lk_holder, wait_lk_holder, wait_cv_sleepers>> /\ XFrame

\* has_exited = true
XSetExited ==
    /\ xpc[EXITER] = "set_exited"
    /\ procs' = [procs EXCEPT ![XPROC].p_did_exit = TRUE]
    /\ xpc' = [xpc EXCEPT ![EXITER] = "acquire_wait"]
    /\ UNCHANGED <<xreg, exit_lk_holder, wait_lk_holder, wait_cv_sleepers>> /\ XFrame

\* lock_acquire(wait_lock)
XAcquireWait ==
    /\ xpc[EXITER] = "acquire_wait" /\ wait_lk_holder = NULL
    /\ wait_lk_holder' = EXITER
    /\ xpc' = [xpc EXCEPT ![EXITER] = "broadcast"]
    /\ UNCHANGED <<procs, xreg, exit_lk_holder, wait_cv_sleepers>> /\ XFrame

\* cv_broadcast(wait_condition, wait_lock): the woken threads go on to
\* take wait_lock again
XBroadcast ==
    /\ xpc[EXITER] = "broadcast"
    /\ LET woken == cv_broadcast_wakes(wait_cv_sleepers) IN
       /\ wait_cv_sleepers' = wait_cv_sleepers \ woken
       /\ xpc' = [x \in DOMAIN xpc |->
                    IF x = EXITER THEN "release_wait"
                    ELSE IF x \in woken THEN "reacquire" ELSE xpc[x]]
    /\ UNCHANGED <<procs, xreg, exit_lk_holder, wait_lk_holder>> /\ XFrame

\* lock_release(wait_lock)
XReleaseWait ==
    /\ xpc[EXITER] = "release_wait"
    /\ wait_lk_holder' = NULL
    /\ xpc' = [xpc EXCEPT ![EXITER] = "release_exit"]
    /\ UNCHANGED <<procs, xreg, exit_lk_holder, wait_cv_sleepers>> /\ XFrame

\* lock_release(exit_lock); return
XReleaseExit ==
    /\ xpc[EXITER] = "release_exit"
    /\ exit_lk_holder' = NULL
    /\ xpc' = [xpc EXCEPT ![EXITER] = "done"]
    /\ UNCHANGED <<procs, xreg, wait_lk_holder, wait_cv_sleepers>> /\ XFrame

\* wait_for_exit(d): lock_acquire(wait_lock), at the call and after a wake-up
WAcquire(w) ==
    /\ xpc[w] \in {"idle", "reacquire"} /\ wait_lk_holder = NULL
    /\ wait_lk_holder' = w
    /\ xpc' = [xpc EXCEPT ![w] = "test"]
    /\ UNCHANGED <<procs, xreg, exit_lk_holder, wait_cv_sleepers>> /\ XFrame

\* while (!has_exited) cv_wait(wait_condition, wait_lock): cv_wait gives the
\* lock up and suspends in one step
WTest(w) ==
    /\ xpc[w] = "test"
    /\ IF wait_must_sleep(procs[XPROC].p_did_exit)
       THEN /\ wait_lk_holder' = NULL
            /\ wait_cv_sleepers' = wait_cv_sleepers \cup {w}
            /\ xreg' = [xreg EXCEPT ![w].slept = TRUE]
            /\ xpc' = [xpc EXCEPT ![w] = "asleep"]
       ELSE /\ xpc' = [xpc EXCEPT ![w] = "read_code"]
            /\ UNCHANGED <<wait_lk_holder, wait_cv_sleepers, xreg>>
    /\ UNCHANGED <<procs, exit_lk_holder>> /\ XFrame

\* code = exit_code
WReadCode(w) ==
    /\ xpc[w] = "read_code"
    /\ xreg' = [xreg EXCEPT ![w].code = procs[XPROC].p_exitcode]
    /\ xpc' = [xpc EXCEPT ![w] = "release"]
    /\ UNCHANGED <<procs, exit_lk_holder, wait_lk_holder, wait_cv_sleepers>> /\ XFrame

\* lock_release(wait_lock); return code
WRelease(w) ==
    /\ xpc[w] = "release"
    /\ wait_lk_holder' = NULL
    /\ xpc' = [xpc EXCEPT ![w] = "done"]
    /\ UNCHANGED <<procs, xreg, exit_lk_holder, wait_cv_sleepers>> /\ XFrame

ExiterStep ==
    \/ XAcquireExit \/ XCheckExited \/ XSetCode \/ XSetExited \/ XAcquireWait
    \/ XBroadcast \/ XReleaseWait \/ XReleaseExit

\* the caller error: record_exit is called on the descriptor once more
XCallAgain ==
    /\ xpc[EXITER] = "done"
    /\ xpc' = [xpc EXCEPT ![EXITER] = "idle"]
    /\ UNCHANGED <<procs, xreg, exit_lk_holder, wait_lk_holder, wait_cv_sleepers>> /\ XFrame

WaiterStep(w) == WAcquire(w) \/ WTest(w) \/ WReadCode(w) \/ WRelease(w)

NextExit == ExiterStep \/ \E w \in WAITER : WaiterStep(w)

\* A thread that can run does run: the scheduler is fair to the exiter and
\* to every waiter.
SpecExit ==
    /\ InitBooted
    /\ [][NextExit]_vars
    /\ WF_vars(ExiterStep)
    /\ \A w \in WAITER : WF_vars(WaiterStep(w))

\* proc_create of descriptors, and record_exit called on the first of them
\* any number of times
NextExitAgain == Create \/ ExiterStep \/ XCallAgain

SpecExitAgain == InitKernelOnly /\ [][NextExitAgain]_vars

\* =================================================================
\* Properties of thread binding
\* =================================================================
\* C7: for a thread t whose back-reference is null, a successful
\* attach(d, t) followed by detach(t) leaves t's back-reference null, t out
\* of d's membership, and d's membership as it was before the attach.
C7_AttachDetachRestores ==
    (last.op = "detach" /\ last.pair) =>
        /\ last.kind = "ret"
        /\ t_proc[last.t] = NULL
        /\ last.t \notin Members(last.p)
        /\ procs[last.p].p_threads = last.before

\* C7 witness: the pair has run on a descriptor that had another member.
C7_Witness ==
    /\ last.op = "detach"
    /\ last.pair
    /\ last.kind = "ret"
    /\ last.before # <<>>

\* t is in the window of a call between the update of p_threads and the
\* update of t->t_proc
InBindWindow(t) ==
    \/ tpc[t] \in {"add_release", "add_finish"} /\ treg[t].result = 0
    \/ tpc[t] \in {"rem_release", "rem_finish"}

BackrefMatchesMembership(t) ==
    /\ t_proc[t] # NULL => t \in Members(t_proc[t])
    /\ \A h \in LiveProcs : t \in Members(h) => t_proc[t] = h

\* C6 as stated: in every reachable state, under any interleaving of attach
\* and detach, a thread's back-reference is non-null iff the thread is a
\* member of the descriptor it names, and a thread with a null
\* back-reference is a member of no descriptor.
C6_BackrefIffMember == \A t \in THREAD : BackrefMatchesMembership(t)

\* C6 amended: the equivalence holds for every thread except while a call
\* on it stands between its update of p_threads and its update of t_proc;
\* in particular for every thread no call is acting on.
C6_BackrefIffMemberOutsideWindow ==
    \A t \in THREAD : ~InBindWindow(t) => BackrefMatchesMembership(t)

\* C6 witness: a thread is attached and idle while a call on the other
\* thread is inside its window on the same descriptor.
C6_Witness ==
    \E t, u \in THREAD :
        /\ t # u
        /\ tpc[t] = "idle" /\ t_proc[t] # NULL
        /\ InBindWindow(u) /\ treg[u].proc = t_proc[t]

\* =================================================================
\* Properties of concurrent creation and of the exit/wait protocol
\* =================================================================
\* C4: when several threads run create concurrently, no two descriptors
\* receive the same identifier.
C4_ConcurrentPidsDistinct ==
    \A g, h \in LiveProcs :
        (g # h /\ procs[g].p_id # 0 /\ procs[h].p_id # 0) => procs[g].p_id # procs[h].p_id

WaitReturnsRecordedCode(w) ==
    xpc[w] = "done" =>
        /\ procs[XPROC].p_did_exit
        /\ xreg[w].code = xreg[EXITER].code
        /\ xreg[w].code = procs[XPROC].p_exitcode

\* C8: with one record_exit and any waits, started before or after it, every
\* wait_for_exit returns (under fair scheduling) and returns the recorded
\* code; none returns while has_exited is false, and none stays blocked once
\* has_exited is true.
C8_WaitersReturnRecordedCode ==
    /\ [](\A w \in WAITER : WaitReturnsRecordedCode(w))
    /\ \A w \in WAITER : (xpc[w] # "idle") ~> (xpc[w] = "done")
    /\ \A w \in WAITER : (procs[XPROC].p_did_exit /\ xpc[w] = "asleep") ~> (xpc[w] = "done")

\* C8 witness: one waiter slept until the broadcast and another arrived
\* after the exit; both have returned.
C8_Witness ==
    \E v, w \in WAITER :
        /\ xpc[v] = "done" /\ xreg[v].slept
        /\ xpc[w] = "done" /\ ~xreg[w].slept
        /\ xpc[EXITER] = "done"

\* =================================================================
\* Failure of proc_addthread, and the kernel process
\* =================================================================
\* C14: when the append inside attach(d, t) fails, attach returns the
\* failure, t's back-reference is still null and d's membership is as it
\* was; the back-reference names d only after a successful append.
C14_AttachFailureLeavesUnbound ==
    (last.op = "attach" /\ last.kind = "ret") =>
        IF last.ret # 0
        THEN /\ last.ret = ENOMEM
             /\ t_proc[last.t] = NULL
             /\ procs[last.p].p_threads = last.before
        ELSE /\ t_proc[last.t] = last.p
             /\ procs[last.p].p_threads = Append(last.before, last.t)

\* C14 witness: an attach has failed on a descriptor that has a member.
C14_Witness ==
    /\ last.op = "attach"
    /\ last.kind = "ret"
    /\ last.ret = ENOMEM
    /\ last.before # <<>>

\* C17: the kernel process is never destroyed: destroy applied to it is
\* stopped by a fatal abort before anything is changed, so in every state
\* after bootstrap the kernel process is a live descriptor registered in
\* the registry.
C17_KernelProcessStaysRegistered ==
    /\ kproc # NULL =>
          /\ procs[kproc].used
          /\ kproc \in Range(allprocs.v)
    /\ (last.op = "destroy" /\ last.p = kproc) =>
          /\ last.kind = "kassert"
          /\ panicked
          /\ allprocs.v = last.before

\* =================================================================
\* The registry on its own: procarray_allprocs_add_proc and
\* procarray_allprocs_remove_proc
\* =================================================================
\* the registries the calls start from: NULL, or the descriptors of any
\* non-empty set of slots in ascending p_id order
SortedSeq(S) ==
    CHOOSE v \in [1..Cardinality(S) -> S] :
        /\ \A i \in 1..Cardinality(S), j \in 1..Cardinality(S) : i < j => v[i] < v[j]

InitRegistry ==
    /\ kproc = NULL
    /\ allprocs \in {NullArray} \cup
                    {[null |-> FALSE, v |-> SortedSeq(S)] : S \in (SUBSET PROC) \ {{}}}
    /\ base_pid = MaxProcs
    /\ procs = [h \in PROC |-> BootedProc(h)]
    /\ t_proc = [t \in THREAD |-> NULL]
    /\ panicked = FALSE
    /\ issued = [i \in 1..MaxProcs |-> i]
    /\ alloc_failed = FALSE
    /\ last = LastNone
    /\ IdleCalls

\* the allocations of procarray_allprocs_add_proc that can fail
RegistryFailPoints == {"none", "registry_create", "registry"}

\* procarray_allprocs_add_proc(p) for a descriptor whose p_id is above
\* every registered one (proc_create registers the newest p_id)
RegistryAdd ==
    /\ ~panicked
    /\ \E p \in PROC, fail \in RegistryFailPoints, ub \in UB :
         /\ \A i \in 1..Len(allprocs.v) : procs[allprocs.v[i]].p_id < procs[p].p_id
         /\ (fail = "registry_create") => allprocs.null
         /\ LET r == procarray_allprocs_add_proc(allprocs, p, fail, ub) IN
            /\ allprocs' = r.a
            /\ panicked' = r.fault
            /\ alloc_failed' = (alloc_failed \/ fail # "none")
            /\ last' = [LastNone EXCEPT !.op = "insert", !.p = p, !.pid = procs[p].p_id,
                                        !.fail = fail, !.before = allprocs.v,
                                        !.pair = (last.op = "remove" /\ last.kind = "ret"
                                                    /\ allprocs.null),
                                        !.kind = IF r.fault THEN "fault" ELSE "ret"]
    /\ UNCHANGED <<kproc, base_pid, procs, t_proc, issued>>
    /\ UNCHANGED <<bvars, cvars, xvars, rvars>>

\* procarray_allprocs_remove_proc(pid) for the p_id of any descriptor
RegistryRemove ==
    /\ ~panicked
    /\ \E p \in PROC :
         LET r == procarray_allprocs_remove_proc(allprocs, procs[p].p_id) IN
         /\ allprocs' = r.a
         /\ panicked' = r.fault
         /\ last' = [LastNone EXCEPT !.op = "remove", !.p = p, !.pid = procs[p].p_id,
                                     !.before = allprocs.v,
                                     !.kind = IF r.fault THEN "fault" ELSE "ret"]
    /\ UNCHANGED <<kproc, base_pid, procs, t_proc, issued, alloc_failed>>
    /\ UNCHANGED <<bvars, cvars, xvars, rvars>>

\* inserts, removes and lookups, one at a time
NextRegistry == RegistryAdd \/ RegistryRemove \/ Lookup

SpecRegistry == InitRegistry /\ [][NextRegistry]_vars

\* C19: at the registry level, remove of the only registered identifier
\* deallocates the storage and leaves the registry NULL, and the next
\* insert allocates it again so that the registry holds exactly the
\* inserted descriptor; remove never leaves an allocated registry with no
\* entry.
C19_RegistryLazyTeardown ==
    /\ (last.op = "remove" /\ last.kind = "ret") =>
          /\ Len(last.before) = 1 => allprocs = NullArray
          /\ ~(~allprocs.null /\ Len(allprocs.v) = 0)
    /\ (last.op = "insert" /\ last.pair /\ last.kind = "ret") =>
          /\ ~allprocs.null
          /\ allprocs.v = <<last.p>>

\* =================================================================
\* The terminal status of a descriptor
\* =================================================================
\* C16: has_exited is false when the descriptor is created and changes only
\* from false to true; once it is true, has_exited and exit_code never
\* change again, and a second record_exit on the exited descriptor stops
\* the kernel instead of overwriting the code.
C16_ExitIsOneWay ==
    [][/\ \A h \in PROC :
            /\ (~procs[h].used /\ procs'[h].used) => ~procs'[h].p_did_exit
            /\ (procs[h].used /\ procs[h].p_did_exit) =>
                  /\ procs'[h].p_did_exit
                  /\ procs'[h].p_exitcode = procs[h].p_exitcode
       /\ (xpc[EXITER] = "check" /\ procs[XPROC].p_did_exit /\ xpc' # xpc) => panicked'
       /\ (xpc[EXITER] = "check" /\ procs[XPROC].p_did_exit) =>
             (xpc'[EXITER] \notin {"set_code", "set_exited"})]_vars

\* C16 witness: the second record_exit, called with another code, has
\* stopped the kernel and the recorded code is the first one.
C16_Witness ==
    /\ panicked
    /\ xpc[EXITER] = "check"
    /\ procs[XPROC].p_did_exit
    /\ xreg[EXITER].code # procs[XPROC].p_exitcode

\* =================================================================
\* curproc_getas and curproc_setas, statement by statement
\* =================================================================
\* curproc of the calling thread t is t_proc[t].  Every calling thread owns
\* one address space (rreg[t].as): curproc_setas installs it and hands the
\* thread the one that was installed.
AFrame ==
    UNCHANGED <<kproc, allprocs, base_pid, t_proc, issued, alloc_failed, last, tpc, treg,
                cvars, xvars, UW, vn_refcount, proc_count, proc_count_mutex, no_proc_sem>>

spinlock_acquire_admits_always(holder) == TRUE

\* spinlock_acquire(&proc->p_lock) goes on once the lock is free
spinlock_acquire_admits(holder) == holder = NULL

\* lines 459-469: the call; with UW, NULL when there is no curproc
GetasCall(t) ==
    /\ ~panicked /\ rpc[t] = "idle"
    /\ IF t_proc[t] = NULL
       THEN /\ panicked' = ~UW
            /\ UNCHANGED rreg
            /\ UNCHANGED rpc
       ELSE /\ rreg' = [rreg EXCEPT ![t].op = "getas", ![t].cur = t_proc[t], ![t].ret = NULL,
                                    ![t].seen = {procs[t_proc[t]].p_addrspace}]
            /\ rpc' = [rpc EXCEPT ![t] = "ga_acquire"]
            /\ UNCHANGED panicked
    /\ UNCHANGED <<procs, p_lock, as_state, as_active>> /\ AFrame

\* line 471: spinlock_acquire(&curproc->p_lock)
GetasAcquire(t) ==
    /\ ~panicked /\ rpc[t] = "ga_acquire"
    /\ spinlock_acquire_admits(p_lock[rreg[t].cur])
    /\ p_lock' = [p_lock EXCEPT ![rreg[t].cur] = t]
    /\ rpc' = [rpc EXCEPT ![t] = "ga_read"]
    /\ UNCHANGED <<procs, panicked, rreg, as_state, as_active>> /\ AFrame

\* line 472: as = curproc->p_addrspace
GetasRead(t) ==
    /\ ~panicked /\ rpc[t] = "ga_read"
    /\ rreg' = [rreg EXCEPT ![t].ret = procs[rreg[t].cur].p_addrspace]
    /\ rpc' = [rpc EXCEPT ![t] = "ga_release"]
    /\ UNCHANGED <<procs, panicked, p_lock, as_state, as_active>> /\ AFrame

\* lines 473-474: spinlock_release(&curproc->p_lock); return as.  The
\* locals end with the call.
GetasRelease(t) ==
    /\ ~panicked /\ rpc[t] = "ga_release"
    /\ p_lock' = [p_lock EXCEPT ![rreg[t].cur] = NULL]
    /\ rreg' = [rreg EXCEPT ![t] = [NoCall EXCEPT !.as = rreg[t].as]]
    /\ rpc' = [rpc EXCEPT ![t] = "idle"]
    /\ UNCHANGED <<procs, panicked, as_state, as_active>> /\ AFrame

\* lines 480-482: curproc_setas(newas) with the thread's address space;
\* proc = curproc
SetasCall(t) ==
    /\ ~panicked /\ rpc[t] = "idle"
    /\ t_proc[t] # NULL
    /\ rreg' = [rreg EXCEPT ![t].op = "setas", ![t].cur = t_proc[t], ![t].ret = NULL]
    /\ rpc' = [rpc EXCEPT ![t] = "sa_acquire"]
    /\ UNCHANGED <<procs, panicked, p_lock, as_state, as_active>> /\ AFrame

\* line 484: spinlock_acquire(&proc->p_lock)
SetasAcquire(t) ==
    /\ ~panicked /\ rpc[t] = "sa_acquire"
    /\ spinlock_acquire_admits(p_lock[rreg[t].cur])
    /\ p_lock' = [p_lock EXCEPT ![rreg[t].cur] = t]
    /\ rpc' = [rpc EXCEPT ![t] = "sa_read"]
    /\ UNCHANGED <<procs, panicked, rreg, as_state, as_active>> /\ AFrame

\* line 485: oldas = proc->p_addrspace
SetasRead(t) ==
    /\ ~panicked /\ rpc[t] = "sa_read"
    /\ rreg' = [rreg EXCEPT ![t].ret = procs[rreg[t].cur].p_addrspace]
    /\ rpc' = [rpc EXCEPT ![t] = "sa_write"]
    /\ UNCHANGED <<procs, panicked, p_lock, as_state, as_active>> /\ AFrame

\* line 486: proc->p_addrspace = newas (NULL when proc_destroy calls)
SetasWrite(t) ==
    /\ ~panicked /\ rpc[t] = "sa_write"
    /\ LET newas == IF rreg[t].op = "destroy" THEN NULL ELSE rreg[t].as IN
       /\ procs' = [procs EXCEPT ![rreg[t].cur].p_addrspace = newas]
       /\ rreg' = [u \in THREAD |->
                     IF rpc[u] \in {"ga_acquire", "ga_read", "ga_release"}
                        /\ rreg[u].cur = rreg[t].cur
                     THEN [rreg[u] EXCEPT !.seen = @ \cup {newas}]
                     ELSE rreg[u]]
    /\ rpc' = [rpc EXCEPT ![t] = "sa_release"]
    /\ UNCHANGED <<panicked, p_lock, as_state, as_active>> /\ AFrame

\* lines 487-488: spinlock_release(&proc->p_lock); return oldas.  The
\* caller now owns oldas; in proc_destroy it is the local `as` (ret here).
SetasRelease(t) ==
    /\ ~panicked /\ rpc[t] = "sa_release"
    /\ p_lock' = [p_lock EXCEPT ![rreg[t].cur] = NULL]
    /\ IF rreg[t].op = "destroy"
       THEN /\ rpc' = [rpc EXCEPT ![t] = "d_as_destroy"]
            /\ UNCHANGED rreg
       ELSE /\ rreg' = [rreg EXCEPT ![t] = [NoCall EXCEPT !.as = rreg[t].ret]]
            /\ rpc' = [rpc EXCEPT ![t] = "idle"]
    /\ UNCHANGED <<procs, panicked, as_state, as_active>> /\ AFrame

GetasStep(t) == GetasCall(t) \/ GetasAcquire(t) \/ GetasRead(t) \/ GetasRelease(t)

SetasStep(t) ==
    \/ SetasCall(t) \/ SetasAcquire(t) \/ SetasRead(t) \/ SetasWrite(t) \/ SetasRelease(t)

\* the threads of process h, in the order they were attached
ThreadsOf(tp, h) == SortedSeq({t \in THREAD : tp[t] = h})

\* A booted kernel with the kernel process in slot 1 and user processes in
\* the other slots; each thread belongs to the kernel process or to the
\* process in slot 2; each of the processes in Owners has its own address
\* space or none, the others have none.
InitOwners(Owners) ==
    /\ kproc = 1
    /\ allprocs = [null |-> FALSE, v |-> [i \in 1..MaxProcs |-> i]]
    /\ base_pid = MaxProcs
    /\ t_proc \in [THREAD -> {1, 2}]
    /\ \E has \in [PROC -> BOOLEAN] :
         /\ \A h \in PROC : has[h] => h \in Owners
         /\ procs = [h \in PROC |->
                       [BootedProc(h) EXCEPT
                           !.p_threads = ThreadsOf(t_proc, h),
                           !.p_addrspace = IF has[h] THEN NThreads + h ELSE NULL]]
    /\ panicked = FALSE
    /\ issued = [i \in 1..MaxProcs |-> i]
    /\ alloc_failed = FALSE
    /\ last = LastNone
    /\ tpc = [t \in THREAD |-> "idle"]
    /\ treg = [t \in THREAD |-> [proc |-> NULL, result |-> 0]]
    /\ p_lock = [h \in PROC |-> NULL]
    /\ cpc = [c \in CPU |-> "idle"]
    /\ creg = [c \in CPU |-> [proc |-> NULL, pid |-> 0, index |-> 0]]
    /\ xpc = [x \in {EXITER} \cup WAITER |-> "idle"]
    /\ xreg = [x \in {EXITER} \cup WAITER |-> [code |-> 0, slept |-> FALSE]]
    /\ exit_lk_holder = NULL
    /\ wait_lk_holder = NULL
    /\ wait_cv_sleepers = {}
    /\ UW \in BOOLEAN
    /\ rpc = [t \in THREAD |-> "idle"]
    /\ rreg = [t \in THREAD |-> [NoCall EXCEPT !.as = t]]
    /\ vn_refcount = 0
    /\ as_state = [a \in AS |-> "live"]
    /\ as_active = [t \in THREAD |-> procs[t_proc[t]].p_addrspace]
    /\ proc_count = MaxProcs - 1
    /\ proc_count_mutex = 1
    /\ no_proc_sem = 0

\* the processes with threads may have an address space
InitAs == InitOwners({1, 2})

\* calls of curproc_getas and curproc_setas by every thread, interleaved
NextAs == \E t \in THREAD : GetasStep(t) \/ SetasStep(t)

SpecAs == InitAs /\ [][NextAs]_vars

\* the address space thread t is responsible for: the one it passes in,
\* and once its curproc_setas has stored that, the one it got back
AsOwned(t) == IF rpc[t] = "sa_release" THEN rreg[t].ret ELSE rreg[t].as

\* every address space a thread or a process holds, with its holder
AsHoldings ==
    {<<"thread", t, AsOwned(t)>> : t \in THREAD}
        \cup {<<"proc", h, procs[h].p_addrspace>> : h \in PROC}

AsHandles == {x[3] : x \in AsHoldings} \ {NULL}

\* C13: curproc_setas is an atomic swap.  Under any interleaving of set and
\* get calls, each set returns the value that was stored right before its
\* own write, no address space is handed to two holders and none is lost,
\* and every get returns a value that was stored at some instant of the call.
C13_SetasIsAtomicSwap ==
    /\ [](/\ \A x, y \in AsHoldings : (x # y /\ x[3] # NULL) => x[3] # y[3]
          /\ \A t \in THREAD :
                rpc[t] = "ga_release" => rreg[t].ret \in rreg[t].seen)
    /\ [][/\ AsHandles' = AsHandles
          /\ \A t \in THREAD :
                (rpc[t] = "sa_write" /\ rpc'[t] = "sa_release") =>
                    rreg[t].ret = procs[rreg[t].cur].p_addrspace]_vars

\* C13 witness: two threads of one process have both completed a set, one
\* got back what the other had passed in, and the other's get, which ran
\* across the first one's later set, is returning the value that set stored.
C13_Witness ==
    \E t, u \in THREAD :
        /\ t # u /\ t_proc[t] = t_proc[u]
        /\ rpc[t] = "idle" /\ rreg[t].as = u
        /\ rpc[u] = "ga_release" /\ rreg[u].ret = t
        /\ Cardinality(rreg[u].seen) = 2

\* =================================================================
\* proc_destroy, statement by statement
\* =================================================================
DFrame ==
    UNCHANGED <<kproc, base_pid, t_proc, issued, alloc_failed, tpc, treg, cvars, xvars, UW>>

\* a call in progress has descriptor d as its proc
InCall(d) == \E u \in THREAD : rpc[u] # "idle" /\ rreg[u].proc = d

\* lines 248-252: proc_destroy(d) on a descriptor no other call works on;
\* KASSERT(proc != kproc); procarray_allprocs_remove_proc(proc->p_id)
DestroyCall(t) ==
    /\ ~panicked /\ rpc[t] = "idle"
    /\ \E d \in LiveProcs :
         /\ ~InCall(d)
         /\ LET rm == procarray_allprocs_remove_proc(allprocs, procs[d].p_id) IN
            IF d = kproc \/ rm.fault
            THEN /\ panicked' = TRUE
                 /\ UNCHANGED <<allprocs, rpc, rreg, last>>
            ELSE /\ allprocs' = rm.a
                 /\ rreg' = [rreg EXCEPT ![t] =
                                [NoCall EXCEPT !.op = "destroy", !.proc = d,
                                               !.as = rreg[t].as,
                                               !.own = procs[d].p_addrspace]]
                 /\ rpc' = [rpc EXCEPT ![t] = "d_cwd"]
                 /\ last' = [LastNone EXCEPT
                                !.op = "proc_destroy", !.p = d,
                                !.pair = (last.op = "runprogram" /\ last.ret = d),
                                !.refs = IF last.op = "runprogram" /\ last.ret = d
                                         THEN last.refs ELSE 0]
                 /\ UNCHANGED panicked
    /\ UNCHANGED <<procs, p_lock, vn_refcount, as_state, as_active, proc_count,
                   proc_count_mutex, no_proc_sem>>
    /\ DFrame

destroy_keeps_cwd(cwd) == FALSE

\* line 260: if (proc->p_cwd)
destroy_releases_cwd(cwd) == cwd # NULL

\* lines 260-263: if (proc->p_cwd) { VOP_DECREF(proc->p_cwd); proc->p_cwd =
\* NULL; }  Line 268 (without UW): if (proc->p_addrspace)
DestroyCwd(t) ==
    /\ ~panicked /\ rpc[t] = "d_cwd"
    /\ LET d == rreg[t].proc IN
       /\ IF destroy_releases_cwd(procs[d].p_cwd)
          THEN /\ vn_refcount' = vn_refcount - 1
               /\ procs' = [procs EXCEPT ![d].p_cwd = NULL]
          ELSE UNCHANGED <<vn_refcount, procs>>
       /\ rpc' = [rpc EXCEPT ![t] = IF ~UW /\ procs[d].p_addrspace # NULL
                                     THEN "d_deactivate" ELSE "d_cleanup"]
    /\ UNCHANGED <<allprocs, panicked, rreg, p_lock, as_state, as_active, proc_count,
                   proc_count_mutex, no_proc_sem>>
    /\ UNCHANGED last
    /\ DFrame

\* lines 281-282: as_deactivate() takes the address space off the caller's
\* processor; curproc_setas(NULL) starts with proc = curproc (a fault when
\* the caller has no process)
DestroyDeactivate(t) ==
    /\ ~panicked /\ rpc[t] = "d_deactivate"
    /\ as_active' = [as_active EXCEPT ![t] = NULL]
    /\ IF t_proc[t] = NULL
       THEN /\ panicked' = TRUE
            /\ UNCHANGED <<rpc, rreg>>
       ELSE /\ rreg' = [rreg EXCEPT ![t].cur = t_proc[t]]
            /\ rpc' = [rpc EXCEPT ![t] = "sa_acquire"]
            /\ UNCHANGED panicked
    /\ UNCHANGED <<allprocs, procs, p_lock, vn_refcount, as_state, proc_count,
                   proc_count_mutex, no_proc_sem>>
    /\ UNCHANGED last
    /\ DFrame

\* line 283: as_destroy(as); as_destroy(NULL) reads through NULL
DestroyAs(t) ==
    /\ ~panicked /\ rpc[t] = "d_as_destroy"
    /\ \E ub \in UB :
         IF rreg[t].ret = NULL
         THEN /\ panicked' = (ub = "fault")
              /\ UNCHANGED as_state
         ELSE /\ as_state' = [as_state EXCEPT ![rreg[t].ret] = "destroyed"]
              /\ UNCHANGED panicked
    /\ rpc' = [rpc EXCEPT ![t] = "d_cleanup"]
    /\ UNCHANGED <<allprocs, procs, rreg, p_lock, vn_refcount, as_active, proc_count,
                   proc_count_mutex, no_proc_sem>>
    /\ UNCHANGED last
    /\ DFrame

\* lines 288-304: vfs_close of the console (with UW), threadarray_cleanup
\* (stops the kernel when threads are attached), spinlock_cleanup,
\* array_cleanup, lock_destroy and cv_destroy (stop the kernel on NULL),
\* kfree(proc->p_name), kfree(proc).  Without UW the call returns here.
DestroyCleanup(t) ==
    /\ ~panicked /\ rpc[t] = "d_cleanup"
    /\ LET d == rreg[t].proc IN
       IF \/ procs[d].p_threads # <<>>
          \/ procs[d].p_wait_lk = NULL
          \/ procs[d].p_wait_cv = NULL
       THEN /\ panicked' = TRUE
            /\ UNCHANGED <<procs, rpc, rreg>>
       ELSE /\ procs' = [procs EXCEPT ![d] = NoProc]
            /\ rpc' = [rpc EXCEPT ![t] = IF UW THEN "d_p" ELSE "idle"]
            /\ rreg' = [rreg EXCEPT ![t] = IF UW THEN @ ELSE [NoCall EXCEPT !.as = rreg[t].as]]
            /\ UNCHANGED panicked
    /\ UNCHANGED <<allprocs, p_lock, vn_refcount, as_state, as_active, proc_count,
                   proc_count_mutex, no_proc_sem>>
    /\ UNCHANGED last
    /\ DFrame

no_proc_signalled_at_one(count) == count <= 1

\* line 315: if (proc_count == 0), after the decrement
no_proc_signalled(count) == count = 0

\* line 311: P(proc_count_mutex)
DestroyP(t) ==
    /\ ~panicked /\ rpc[t] = "d_p"
    /\ proc_count_mutex > 0
    /\ proc_count_mutex' = proc_count_mutex - 1
    /\ rpc' = [rpc EXCEPT ![t] = "d_dec"]
    /\ UNCHANGED <<allprocs, procs, panicked, rreg, p_lock, vn_refcount, as_state,
                   as_active, proc_count, no_proc_sem>>
    /\ UNCHANGED last
    /\ DFrame

\* lines 312-317: KASSERT(proc_count > 0); proc_count--;
\* if (proc_count == 0) V(no_proc_sem)
DestroyDec(t) ==
    /\ ~panicked /\ rpc[t] = "d_dec"
    /\ IF proc_count > 0
       THEN /\ proc_count' = proc_count - 1
            /\ no_proc_sem' = IF no_proc_signalled(proc_count - 1)
                               THEN no_proc_sem + 1 ELSE no_proc_sem
            /\ rpc' = [rpc EXCEPT ![t] = "d_v"]
            /\ UNCHANGED panicked
       ELSE /\ panicked' = TRUE
            /\ UNCHANGED <<proc_count, no_proc_sem, rpc>>
    /\ UNCHANGED <<allprocs, procs, rreg, p_lock, vn_refcount, as_state, as_active,
                   proc_count_mutex>>
    /\ UNCHANGED last
    /\ DFrame

\* lines 318, 321: V(proc_count_mutex); return
DestroyV(t) ==
    /\ ~panicked /\ rpc[t] = "d_v"
    /\ proc_count_mutex' = proc_count_mutex + 1
    /\ rreg' = [rreg EXCEPT ![t] = [NoCall EXCEPT !.as = rreg[t].as]]
    /\ rpc' = [rpc EXCEPT ![t] = "idle"]
    /\ UNCHANGED <<allprocs, procs, panicked, p_lock, vn_refcount, as_state,
                   as_active, proc_count, no_proc_sem>>
    /\ UNCHANGED last
    /\ DFrame

\* proc_destroy called by any thread on any process, with what it calls
NextDestroyAs ==
    \E t \in THREAD :
        \/ DestroyCall(t) \/ DestroyCwd(t) \/ DestroyDeactivate(t)
        \/ SetasAcquire(t) \/ SetasRead(t) \/ SetasWrite(t) \/ SetasRelease(t)
        \/ DestroyAs(t) \/ DestroyCleanup(t)
        \/ DestroyP(t) \/ DestroyDec(t) \/ DestroyV(t)

\* every process may own an address space
InitDestroyAs == InitOwners(PROC)

SpecDestroyAs == InitDestroyAs /\ [][NextDestroyAs]_vars

\* C15: when destroy(d) is called on a descriptor that owns an address
\* space, the address space deactivated, detached and destroyed is d's own:
\* the pointer cleared is d's, it is cleared before the destruction starts,
\* the address space handed to as_destroy is the one d owned, and no other
\* process (the caller's in particular) loses or has destroyed its own.
C15_DestroyReleasesOwnAddressSpace ==
    /\ \A t \in THREAD :
          (rreg[t].op = "destroy" /\ rreg[t].own # NULL) =>
              /\ rpc[t] \in {"sa_acquire", "sa_read", "sa_write", "sa_release"} =>
                    rreg[t].cur = rreg[t].proc
              /\ rpc[t] = "d_as_destroy" =>
                    /\ rreg[t].ret = rreg[t].own
                    /\ procs[rreg[t].proc].p_addrspace = NULL
    /\ \A h \in LiveProcs :
          (~InCall(h) /\ procs[h].p_addrspace # NULL) =>
              as_state[procs[h].p_addrspace] = "live"

\* =================================================================
\* proc_create_runprogram, statement by statement
\* =================================================================
RFrame == UNCHANGED <<kproc, t_proc, tpc, treg, cvars, xvars, UW, as_state, as_active>>

\* proc_create either succeeds or fails at its first allocation here; the
\* failures it does not report are followed one call at a time (Create).
RunFailPoints == {"none", "proc"}

\* lines 352-376: proc = proc_create(name), NULL returned as it is; with
\* UW the console is opened (the kernel stops when that fails);
\* proc->p_addrspace = NULL.  The caller has a process (curproc).
RunCreate(t) ==
    /\ ~panicked /\ rpc[t] = "idle"
    /\ t_proc[t] # NULL
    /\ base_pid < MaxPid
    /\ \E h \in KmallocChoices, fail \in RunFailPoints, ub \in {"fault"},
          console \in BOOLEAN :
         /\ (h = NULL) => (fail = "proc")
         /\ ~console => UW
         /\ LET r == proc_create(h, fail, ub)
                cur == t_proc[t]
                call == [NoCall EXCEPT !.op = "create", !.as = rreg[t].as]
            IN
            /\ procs' = r.procs
            /\ base_pid' = r.base_pid
            /\ allprocs' = r.allprocs
            /\ issued' = r.issued
            /\ panicked' = (r.fault \/ (r.ret # NULL /\ ~console))
            /\ last' = [LastNone EXCEPT !.op = "runprogram", !.p = cur, !.ret = r.ret,
                                        !.refs = vn_refcount]
            /\ IF r.fault \/ r.ret = NULL \/ ~console
               THEN UNCHANGED <<rpc, rreg>>
               ELSE /\ rreg' = [rreg EXCEPT ![t] = [call EXCEPT !.proc = r.ret, !.cur = cur]]
                    /\ rpc' = [rpc EXCEPT ![t] =
                                  IF ~UW THEN "rc_lock"
                                  ELSE IF procs[cur].p_cwd # NULL THEN "rc_incref"
                                  ELSE "rc_p"]
    /\ UNCHANGED <<alloc_failed, p_lock, vn_refcount, proc_count, proc_count_mutex,
                   no_proc_sem>>
    /\ RFrame

\* lines 387-388 (without UW): spinlock_acquire(&curproc->p_lock);
\* if (curproc->p_cwd != NULL)
RunLock(t) ==
    /\ ~panicked /\ rpc[t] = "rc_lock"
    /\ spinlock_acquire_admits(p_lock[rreg[t].cur])
    /\ p_lock' = [p_lock EXCEPT ![rreg[t].cur] = t]
    /\ rpc' = [rpc EXCEPT ![t] = IF procs[rreg[t].cur].p_cwd # NULL
                                  THEN "rc_incref" ELSE "rc_unlock"]
    /\ UNCHANGED <<allprocs, base_pid, procs, issued, alloc_failed, panicked, rreg,
                   vn_refcount, proc_count, proc_count_mutex, no_proc_sem>>
    /\ UNCHANGED last
    /\ RFrame

\* lines 383-384 (UW), 389-390 (without UW): VOP_INCREF(curproc->p_cwd);
\* proc->p_cwd = curproc->p_cwd
RunIncref(t) ==
    /\ ~panicked /\ rpc[t] = "rc_incref"
    /\ vn_refcount' = vn_refcount + 1
    /\ procs' = [procs EXCEPT ![rreg[t].proc].p_cwd = procs[rreg[t].cur].p_cwd]
    /\ rpc' = [rpc EXCEPT ![t] = IF UW THEN "rc_p" ELSE "rc_unlock"]
    /\ UNCHANGED <<allprocs, base_pid, issued, alloc_failed, panicked, rreg, p_lock,
                   proc_count, proc_count_mutex, no_proc_sem>>
    /\ UNCHANGED last
    /\ RFrame

\* lines 392, 405 (without UW): spinlock_release(&curproc->p_lock);
\* return proc
RunUnlock(t) ==
    /\ ~panicked /\ rpc[t] = "rc_unlock"
    /\ p_lock' = [p_lock EXCEPT ![rreg[t].cur] = NULL]
    /\ rreg' = [rreg EXCEPT ![t] = [NoCall EXCEPT !.as = rreg[t].as]]
    /\ UNCHANGED last
    /\ rpc' = [rpc EXCEPT ![t] = "idle"]
    /\ UNCHANGED <<allprocs, base_pid, procs, issued, alloc_failed, panicked, vn_refcount,
                   proc_count, proc_count_mutex, no_proc_sem>>
    /\ RFrame

\* line 400: P(proc_count_mutex)
RunP(t) ==
    /\ ~panicked /\ rpc[t] = "rc_p"
    /\ proc_count_mutex > 0
    /\ proc_count_mutex' = proc_count_mutex - 1
    /\ rpc' = [rpc EXCEPT ![t] = "rc_load"]
    /\ UNCHANGED <<allprocs, base_pid, procs, issued, alloc_failed, panicked, rreg, p_lock,
                   vn_refcount, proc_count, no_proc_sem>>
    /\ UNCHANGED last
    /\ RFrame

\* line 401, proc_count++: the load
RunLoad(t) ==
    /\ ~panicked /\ rpc[t] = "rc_load"
    /\ rreg' = [rreg EXCEPT ![t].load = proc_count]
    /\ rpc' = [rpc EXCEPT ![t] = "rc_store"]
    /\ UNCHANGED <<allprocs, base_pid, procs, issued, alloc_failed, panicked, p_lock,
                   vn_refcount, proc_count, proc_count_mutex, no_proc_sem>>
    /\ UNCHANGED last
    /\ RFrame

\* line 401, proc_count++: the store
RunStore(t) ==
    /\ ~panicked /\ rpc[t] = "rc_store"
    /\ proc_count' = (rreg[t].load + 1) % UINT_MOD
    /\ rpc' = [rpc EXCEPT ![t] = "rc_v"]
    /\ UNCHANGED <<allprocs, base_pid, procs, issued, alloc_failed, panicked, rreg, p_lock,
                   vn_refcount, proc_count_mutex, no_proc_sem>>
    /\ UNCHANGED last
    /\ RFrame

\* lines 402, 405: V(proc_count_mutex); return proc
RunV(t) ==
    /\ ~panicked /\ rpc[t] = "rc_v"
    /\ proc_count_mutex' = proc_count_mutex + 1
    /\ rreg' = [rreg EXCEPT ![t] = [NoCall EXCEPT !.as = rreg[t].as]]
    /\ UNCHANGED last
    /\ rpc' = [rpc EXCEPT ![t] = "idle"]
    /\ UNCHANGED <<allprocs, base_pid, procs, issued, alloc_failed, panicked, p_lock,
                   vn_refcount, proc_count, no_proc_sem>>
    /\ RFrame

RunStep(t) ==
    \/ RunCreate(t) \/ RunLock(t) \/ RunIncref(t) \/ RunUnlock(t)
    \/ RunP(t) \/ RunLoad(t) \/ RunStore(t) \/ RunV(t)

\* proc_destroy of a descriptor that owns no address space
DestroyStep(t) ==
    \/ DestroyCall(t) \/ DestroyCwd(t) \/ DestroyCleanup(t)
    \/ DestroyP(t) \/ DestroyDec(t) \/ DestroyV(t)

\* A booted kernel with the kernel process in slot 1 and a user process,
\* created by proc_create_runprogram, in slot 2.  The calling threads are
\* the kernel's (the menu thread and its like).  Either the kernel process
\* has VNODE as its working directory and the user process has inherited
\* it, or neither has one; VNODE has other references besides.
InitRun ==
    /\ kproc = 1
    /\ allprocs = [null |-> FALSE, v |-> <<1, 2>>]
    /\ base_pid = 2
    /\ t_proc = [t \in THREAD |-> 1]
    /\ \E cwd \in {NULL, VNODE} :
         /\ procs = [h \in PROC |->
                       IF h \in {1, 2}
                       THEN [BootedProc(h) EXCEPT !.p_threads = ThreadsOf(t_proc, h),
                                                  !.p_cwd = cwd]
                       ELSE NoProc]
         /\ vn_refcount \in IF cwd = NULL THEN 0..(MaxRefs - 2) ELSE 2..MaxRefs
    /\ panicked = FALSE
    /\ issued = <<1, 2>>
    /\ alloc_failed = FALSE
    /\ last = LastNone
    /\ tpc = [t \in THREAD |-> "idle"]
    /\ treg = [t \in THREAD |-> [proc |-> NULL, result |-> 0]]
    /\ p_lock = [h \in PROC |-> NULL]
    /\ cpc = [c \in CPU |-> "idle"]
    /\ creg = [c \in CPU |-> [proc |-> NULL, pid |-> 0, index |-> 0]]
    /\ xpc = [x \in {EXITER} \cup WAITER |-> "idle"]
    /\ xreg = [x \in {EXITER} \cup WAITER |-> [code |-> 0, slept |-> FALSE]]
    /\ exit_lk_holder = NULL
    /\ wait_lk_holder = NULL
    /\ wait_cv_sleepers = {}
    /\ UW \in BOOLEAN
    /\ rpc = [t \in THREAD |-> "idle"]
    /\ rreg = [t \in THREAD |-> NoCall]
    /\ as_state = [a \in AS |-> "live"]
    /\ as_active = [t \in THREAD |-> NULL]
    /\ proc_count = 1
    /\ proc_count_mutex = 1
    /\ no_proc_sem = 0

\* calls of proc_create_runprogram and proc_destroy by every thread,
\* interleaved
NextRun == \E t \in THREAD : RunStep(t) \/ DestroyStep(t)

SpecRun == InitRun /\ [][NextRun]_vars

\* the statements that may put the caller to sleep: VOP_INCREF (lines 383,
\* 389), VOP_DECREF (line 261), P (lines 311, 400)
MaySuspend == {"rc_incref", "d_cwd", "rc_p", "d_p"}

\* C12: no thread holds a descriptor's p_lock while it is at a statement
\* that may suspend; proc_create_runprogram has released curproc->p_lock
\* before VOP_INCREF.
C12_NoLockAcrossSuspension ==
    \A t \in THREAD :
        rpc[t] \in MaySuspend => \A h \in PROC : p_lock[h] # t

\* the descriptors proc_count is to count: every one but the kernel process
Counted == LiveProcs \ {kproc}

\* C20 (UW build): when no call is in progress proc_count is the number of
\* descriptors created by proc_create_runprogram and not destroyed, the
\* kernel process not among them; proc_count is positive at the KASSERT of
\* proc_destroy; and V(no_proc_sem) is done exactly by the steps that take
\* proc_count from 1 to 0.
C20_ProcCountTracksProcesses ==
    /\ []((UW /\ ~panicked /\ \A t \in THREAD : rpc[t] = "idle") =>
             proc_count = Cardinality(Counted))
    /\ [](UW => \A t \in THREAD : rpc[t] = "d_dec" => proc_count > 0)
    /\ [][UW => no_proc_sem' = no_proc_sem +
                    (IF proc_count = 1 /\ proc_count' = 0 THEN 1 ELSE 0)]_vars

\* C20 witness: the count has gone from 1 to 0 twice, a create in between,
\* and every call has returned.
C20_Witness ==
    /\ UW /\ ~panicked
    /\ \A t \in THREAD : rpc[t] = "idle"
    /\ proc_count = 0 /\ no_proc_sem = 2
    /\ base_pid > 2

\* no call of proc_create_runprogram or proc_destroy is in progress
NoRunCall == \A t \in THREAD : rpc[t] = "idle"

\* no thread but t is in a call
Alone(t) == \A u \in THREAD \ {t} : rpc[u] = "idle"

\* The same calls made one at a time: a call starts when no other is in
\* progress.
RunSeq(t) == Alone(t) /\ RunStep(t)

DestroySeq(t) == Alone(t) /\ DestroyStep(t)

NextRunSeq == \E t \in THREAD : RunSeq(t) \/ DestroySeq(t)

SpecRunSeq == InitRun /\ [][NextRunSeq]_vars

\* C11: when proc_create_runprogram has returned a child, the child's p_cwd
\* is curproc's p_cwd, and VNODE's reference count is one more than at the
\* call if that is a working directory and the same if it is NULL;
\* proc_destroy has cleared p_cwd before it frees the descriptor, and when
\* the destroy of that child has returned the count is what it was before
\* the create.
C11_CwdReferenceInherited ==
    /\ (NoRunCall /\ ~panicked /\ last.op = "runprogram" /\ last.ret # NULL) =>
          /\ procs[last.ret].p_cwd = procs[last.p].p_cwd
          /\ vn_refcount = last.refs + (IF procs[last.p].p_cwd # NULL THEN 1 ELSE 0)
    /\ \A t \in THREAD :
          rpc[t] = "d_cleanup" => procs[rreg[t].proc].p_cwd = NULL
    /\ (NoRunCall /\ ~panicked /\ last.op = "proc_destroy" /\ last.pair) =>
          vn_refcount = last.refs

\* C11 witness: a child that inherited VNODE has been created and then
\* destroyed.
C11_Witness ==
    /\ NoRunCall /\ ~panicked
    /\ last.op = "proc_destroy" /\ last.pair
    /\ procs[kproc].p_cwd = VNODE
    /\ ~procs[last.p].used
    /\ vn_refcount = last.refs

\* =================================================================
\* proc_remthread(t) called by any thread c on any thread t
\* =================================================================
\* "Either the thread or the process might or might not be current": the
\* caller need not be t, and two callers may name the same t.
TFrame ==
    UNCHANGED <<kproc, allprocs, base_pid, issued, alloc_failed, last, tpc, treg, cvars,
                xvars, UW, vn_refcount, as_state, as_active, proc_count, proc_count_mutex,
                no_proc_sem>>

\* lines 435-436: proc = t->t_proc; KASSERT(proc != NULL)
RemthreadCall(c) ==
    /\ ~panicked /\ rpc[c] = "idle"
    /\ \E t \in THREAD :
         LET call == [NoCall EXCEPT !.op = "remthread", !.t = t, !.proc = t_proc[t],
                                    !.as = rreg[c].as]
         IN
         /\ rreg' = [rreg EXCEPT ![c] = call]
         /\ panicked' = (t_proc[t] = NULL)
         /\ rpc' = [rpc EXCEPT ![c] = IF t_proc[t] = NULL THEN "rt_panic" ELSE "rt_acquire"]
    /\ UNCHANGED <<procs, t_proc, p_lock>>
    /\ TFrame

\* line 438: spinlock_acquire(&proc->p_lock)
RemthreadAcquire(c) ==
    /\ ~panicked /\ rpc[c] = "rt_acquire"
    /\ spinlock_acquire_admits(p_lock[rreg[c].proc])
    /\ p_lock' = [p_lock EXCEPT ![rreg[c].proc] = c]
    /\ rpc' = [rpc EXCEPT ![c] = "rt_scan"]
    /\ UNCHANGED <<procs, t_proc, panicked, rreg>>
    /\ TFrame

remthread_escape_ignored(i, num) == FALSE

\* lines 441-449: the loop ends without a match
remthread_escaped(i, num) == i >= num

\* lines 440-443: the scan, and threadarray_remove(&proc->p_threads, i) at
\* the match; lines 449-451 without one: spinlock_release(&proc->p_lock);
\* panic("Thread (%p) has escaped from its process (%p)\n")
RemthreadScan(c) ==
    /\ ~panicked /\ rpc[c] = "rt_scan"
    /\ LET d == rreg[c].proc
           num == Len(procs[d].p_threads)
           i == scan_threads(procs[d].p_threads, rreg[c].t, 0)
       IN
       /\ rreg' = [rreg EXCEPT ![c].seen = Members(d)]
       /\ IF remthread_escaped(i, num)
          THEN /\ p_lock' = [p_lock EXCEPT ![d] = NULL]
               /\ panicked' = TRUE
               /\ rpc' = [rpc EXCEPT ![c] = "rt_panic"]
               /\ UNCHANGED procs
          ELSE /\ procs' = [procs EXCEPT ![d].p_threads =
                               IF i < num THEN threadarray_remove(@, i) ELSE @]
               /\ rpc' = [rpc EXCEPT ![c] = "rt_release"]
               /\ UNCHANGED <<p_lock, panicked>>
    /\ UNCHANGED t_proc
    /\ TFrame

\* line 444: spinlock_release(&proc->p_lock)
RemthreadRelease(c) ==
    /\ ~panicked /\ rpc[c] = "rt_release"
    /\ p_lock' = [p_lock EXCEPT ![rreg[c].proc] = NULL]
    /\ rpc' = [rpc EXCEPT ![c] = "rt_clear"]
    /\ UNCHANGED <<procs, t_proc, panicked, rreg>>
    /\ TFrame

\* lines 445-446: t->t_proc = NULL; return
RemthreadClear(c) ==
    /\ ~panicked /\ rpc[c] = "rt_clear"
    /\ t_proc' = [t_proc EXCEPT ![rreg[c].t] = NULL]
    /\ rreg' = [rreg EXCEPT ![c] = [NoCall EXCEPT !.as = rreg[c].as]]
    /\ rpc' = [rpc EXCEPT ![c] = "idle"]
    /\ UNCHANGED <<procs, panicked, p_lock>>
    /\ TFrame

\* A booted kernel in which every thread has been attached to a process.
InitMembers ==
    /\ kproc = 1
    /\ allprocs = [null |-> FALSE, v |-> [i \in 1..MaxProcs |-> i]]
    /\ base_pid = MaxProcs
    /\ t_proc \in [THREAD -> PROC]
    /\ procs = [h \in PROC |-> [BootedProc(h) EXCEPT !.p_threads = ThreadsOf(t_proc, h)]]
    /\ panicked = FALSE
    /\ issued = [i \in 1..MaxProcs |-> i]
    /\ alloc_failed = FALSE
    /\ last = LastNone
    /\ IdleCalls

NextRemthread ==
    \E c \in THREAD :
        \/ RemthreadCall(c) \/ RemthreadAcquire(c) \/ RemthreadScan(c)
        \/ RemthreadRelease(c) \/ RemthreadClear(c)

SpecRemthread == InitMembers /\ [][NextRemthread]_vars

\* C18: a call of proc_remthread(t) that read NULL from t->t_proc, or did
\* not find t in the array of the descriptor it read, does not get past the
\* scan: it stops the kernel, holding no p_lock, and the step that stops it
\* leaves t->t_proc as it was.
C18_DetachOfNonMemberAborts ==
    /\ [](\A c \in THREAD :
            /\ rpc[c] \in {"rt_release", "rt_clear"} =>
                  rreg[c].proc # NULL /\ rreg[c].t \in rreg[c].seen
            /\ rpc[c] = "rt_panic" =>
                  /\ panicked
                  /\ rreg[c].proc = NULL \/ rreg[c].t \notin rreg[c].seen
                  /\ \A h \in PROC : p_lock[h] # c)
    /\ [][\A c \in THREAD :
             (rpc[c] # "rt_panic" /\ rpc'[c] = "rt_panic") => t_proc' = t_proc]_vars

\* C18 witness: a call found that its thread had escaped: another call had
\* removed it and not yet cleared t->t_proc.
C18_Witness ==
    \E c \in THREAD :
        /\ rpc[c] = "rt_panic"
        /\ rreg[c].proc # NULL
        /\ rreg[c].t \notin Members(rreg[c].proc)
        /\ t_proc[rreg[c].t] = rreg[c].proc

====
